---- MODULE Spec2Model ----
(***************************************************************************)
(* Model of the transaction-ledger normalisation re-implemented by the     *)
(* scripts of the ebay-analytics repository:                               *)
(*   calculate_payout.py   module-level script, dict-based title backfill  *)
(*   app/app.py            transform(df), dict-based title backfill        *)
(*   hoold.py              parse_contents, groupby/map title backfill      *)
(*   gen_dash_app_1.py     parse_contents, groupby/map title backfill      *)
(*                                                                         *)
(* A table (pandas DataFrame) is a sequence of rows; every row keeps the   *)
(* index label it got when the file was read (field idx), as pandas does   *)
(* through boolean filtering and column projection.  Cell values are       *)
(* strings; np.nan / None (the absent marker) is the value NaN.            *)
(* Pandas semantics are those of pandas 2.x without copy-on-write, the     *)
(* version the scripts were written for: replace(x, None) stores None and  *)
(* the chained assignment report[col].iloc[i] = v writes into report.      *)
(***************************************************************************)
EXTENDS Integers, Sequences, FiniteSets, TLC

\* ---------------------------------------------------------------- bounds
MaxRows == 3

\* ---------------------------------------------------------------- values
SENTINEL == "--"
NaN == "NaN"

Types == {"Order", "Refund", "Payout"}
OrderNumbers == {"O1"}
Titles == {"Widget A", "Widget B"}

\* what pd.read_csv delivers in a cell: the text, or NaN for an empty cell
\* ('--' is not among read_csv's NA strings, so it arrives as text).  An empty
\* title cell is not enumerated: every script treats it as it treats '--'.
RawOrders == OrderNumbers \cup {SENTINEL, NaN}
RawTitles == Titles \cup {SENTINEL}

\* A Payout row of the export carries neither an order number nor a title.  The
\* dict scripts drop Payout rows before reading them and parse_contents never
\* reads the Type column, so one shape of Payout row stands for all of them.
RawRow == {r \in [type : Types, order : RawOrders, title : RawTitles] :
              r.type = "Payout" => (r.order = SENTINEL /\ r.title = SENTINEL)}

Impls == {"calculate_payout", "transform", "hoold", "gen_dash"}
DictImpls == {"calculate_payout", "transform"}
ParseImpls == {"hoold", "gen_dash"}

VARIABLES
    impl,      \* which script runs
    pc,        \* position in that script
    input,     \* the ledger as read from the file (never changed)
    df,        \* csv / df: the table the script read; replace(inplace) writes it
    report,    \* the working table (report in the dict scripts, df in parse_contents)
    orders,    \* orders: the rows the reference map is built from
    ref,       \* ref / title_mapping: order number -> title
    i,         \* loop index of the dict scripts (0-based, as range(n))
    escaped,   \* TRUE once an exception has left the normalisation
    columns,   \* the column labels of the table being worked on
    pass,      \* 1 for the first normalisation, 2 when its output is normalised again
    first,     \* the table the first normalisation returned (set when pass 2 starts)
    stored     \* the 'stored-data' output of update_output

ledgerVars == <<impl, pc, input, df, report, orders, ref, i, escaped, columns, pass, first, stored>>

\* ---- numeric coercion of one cell (parse_contents of hoold.py and gen_dash_app_1.py)
VARIABLES
    cell,      \* the cell as read_csv delivers it: a text (sequence of characters) or NaN
    coerced,   \* the value stored in the column after the coercion
    cpc        \* position: "raw", then "hoold" / "gen" / "failed"

coerceVars == <<cell, coerced, cpc>>

\* ---- group-and-sum aggregation (calculate_payout.py, hoold.py update_sales_trend)
VARIABLES
    aggImpl,   \* which script aggregates
    aggRows,   \* the rows as in the file: group key and the text of the monetary cell
    aggCol,    \* the monetary column as the script holds it before groupby
    totals,    \* the result of groupby(key)[col].sum(): key -> total
    apc        \* position: "file", "column", "summed"

aggVars == <<aggImpl, aggRows, aggCol, totals, apc>>

\* ---- the SQL page (ebay_sql_dash_app/ebay_sql_query.py)
VARIABLES
    ds_df,         \* data_store.df
    ds_table,      \* the rows of the SQLite table 'data' as the shared connection sees them
    ds_columns,    \* data_store.columns
    ds_original,   \* data_store.original_columns
    uploaded,      \* the table of the most recent successful upload
    result,        \* what the last callback returned
    raised,        \* the exception that left the last callback, or None
    calls          \* number of callbacks run

sqlVars == <<ds_df, ds_table, ds_columns, ds_original, uploaded, result, raised, calls>>

\* ---- clean_column_names (ebay_sql_dash_app/ebay_sql_query.py)
VARIABLES
    header,          \* the column labels of the uploaded file
    df_columns,      \* df.columns
    new_names,       \* new_names
    original_names,  \* original_names: cleaned name -> original name
    ccpc             \* position: "start", "done"

colVars == <<header, df_columns, new_names, original_names, ccpc>>

\* ---- validate_csv (ebay_sql_dash_app/ebay_sql_query.py)
VARIABLES
    vfile,     \* the upload: filename, contents and what decoding and parsing them gives
    vpc,       \* position in validate_csv
    vdecoded,  \* TRUE once base64.b64decode has been called on the contents
    vret       \* the tuple validate_csv returned

valVars == <<vfile, vpc, vdecoded, vret>>

\* ---- two process_upload calls running at once (ebay_sql_dash_app/ebay_sql_query.py)
VARIABLES
    tpc,       \* position of each call in process_upload
    tfile      \* the validated upload each call holds in its local df, original_names

threadVars == <<tpc, tfile>>

\* ---- update_output over a sequence of uploads (hoold.py, gen_dash_app_1.py)
VARIABLES
    dash_impl,    \* which dashboard
    last_upload,  \* the most recent upload event
    stored_data,  \* Output('stored-data', 'data')
    display,      \* Output('dashboard-content', 'style')['display']
    uploads       \* for each upload event handled so far, whether its file parsed

dashVars == <<dash_impl, last_upload, stored_data, display, uploads>>

\* ---- the summary and trend callbacks of gen_dash_app_1.py
VARIABLES
    vstored,   \* stored-data: the processed table
    features,  \* feature-selector value: the selected columns
    shown,     \* data-table derived_virtual_indices: the rows the table shows
    stats,     \* what update_summary_stats returned
    figure     \* what update_sales_trend returned

viewVars == <<vstored, features, shown, stats, figure>>

\* ---- the scraper's make_df (main.py, tuning.py)
VARIABLES
    scraper,   \* which script's make_df
    pages,     \* the rows collection() reads from page_1 .. page_l
    scraped,   \* what make_df(pd.DataFrame(), l) returned
    spc        \* position: "start", "done"

scrapeVars == <<scraper, pages, scraped, spc>>

restVars == <<threadVars, dashVars, viewVars, scrapeVars>>

\* the variables of the other components of the repository
others == <<coerceVars, aggVars, sqlVars, colVars, valVars, threadVars, dashVars, viewVars,
            scrapeVars>>

vars == <<ledgerVars, others>>

\* ---------------------------------------------------------------- pandas helpers
isna(v) == v = NaN
notna(v) == v # NaN

\* index labels 0..n-1 given by read_csv
WithIndex(rows) == [j \in 1..Len(rows) |-> [idx |-> j - 1, type |-> rows[j].type,
                                            order |-> rows[j].order, title |-> rows[j].title]]

\* DataFrame.replace('--', np.nan): every cell of every column
ReplaceCell(v) == IF v = SENTINEL THEN NaN ELSE v
ReplaceAll(t) == [j \in 1..Len(t) |-> [idx |-> t[j].idx, type |-> ReplaceCell(t[j].type),
                                       order |-> ReplaceCell(t[j].order),
                                       title |-> ReplaceCell(t[j].title)]]

EmptyRef == [k \in {} |-> NaN]

\* Python's None, where a callback returns or stores no table
None == [kind |-> "None"]
\* a dash output that has not been produced yet
Unset == [kind |-> "Unset"]

\* ---------------------------------------------------------------- column labels
\* the labels each script reads from the export it is written for; of the
\* columns gen_dash_app_1.py fills with '--' and of its fee columns one each is
\* carried ('Buyer name', 'Final Value Fee - fixed'), the others are used alike
InputColumns(im) ==
    CASE im = "calculate_payout" ->
            {"Transaction creation date", "Type", "Order number", "Net amount", "Item title"}
      [] im = "transform" ->
            {"Transaction creation date", "Type", "Order number", "Net amount", "Item title",
             "Buyer username"}
      [] im = "hoold" ->
            {"Transaction creation date", "Type", "Order number", "Net amount", "Item title"}
      [] im = "gen_dash" ->
            {"Order creation date", "Order number", "Item title", "Buyer name",
             "Final Value Fee - fixed"}

\* the labels the statements executed from position p index the table with;
\* indexing with a label the table lacks raises KeyError
Needed(im, p) ==
    CASE im = "transform" /\ p = "replaced" -> InputColumns("transform")
      [] im = "calculate_payout" /\ p = "replaced" -> InputColumns("calculate_payout")
      [] im = "hoold" /\ p = "start" -> {"Transaction creation date", "Net amount"}
      [] im = "gen_dash" /\ p = "start" -> {"Order creation date"}
      [] im \in {"hoold", "gen_dash"} /\ p = "read" -> {"Item title"}
      [] im \in {"hoold", "gen_dash"} /\ p = "replaced" -> {"Order number", "Item title"}
      [] im \in {"hoold", "gen_dash"} /\ p = "mapped" -> {"Order number", "Item title"}
      [] im = "hoold" /\ p = "applied" -> {"Item title"}
      [] im = "gen_dash" /\ p = "applied" ->
            {"Item title", "Order number", "Buyer name", "Final Value Fee - fixed",
             "Order creation date"}
      [] OTHER -> {}
HasNeeded == Needed(impl, pc) \subseteq columns

\* the variables of the other components while the normalisations run
CoerceIdle == cell = NaN /\ coerced = NaN /\ cpc = "idle"
AggIdle == aggImpl = "none" /\ aggRows = <<>> /\ aggCol = <<>> /\ totals = <<>> /\ apc = "idle"
SqlIdle ==
    /\ ds_df = None /\ ds_table = None /\ ds_columns = <<>> /\ ds_original = EmptyRef
    /\ uploaded = None
    /\ result = Unset /\ raised = None /\ calls = 0
ColIdle == header = <<>> /\ df_columns = <<>> /\ new_names = <<>> /\ original_names = <<>> /\ ccpc = "idle"
ValIdle == vfile = None /\ vpc = "idle" /\ vdecoded = FALSE /\ vret = None
ThreadIdle == tpc = <<>> /\ tfile = <<>>
DashIdle ==
    /\ dash_impl = "none" /\ last_upload = None /\ stored_data = None /\ display = "none"
    /\ uploads = <<>>
ViewIdle == vstored = None /\ features = {} /\ shown = <<>> /\ stats = Unset /\ figure = Unset
ScrapeIdle == scraper = "none" /\ pages = <<>> /\ scraped = None /\ spc = "idle"
RestIdle == ThreadIdle /\ DashIdle /\ ViewIdle /\ ScrapeIdle
OthersIdle == CoerceIdle /\ AggIdle /\ SqlIdle /\ ColIdle /\ ValIdle /\ RestIdle
LedgerIdle ==
    /\ impl = "none" /\ pc = "idle" /\ input = <<>> /\ df = <<>> /\ report = <<>>
    /\ orders = <<>> /\ ref = EmptyRef /\ i = 0 /\ escaped = FALSE /\ columns = {}
    /\ pass = 1 /\ first = <<>> /\ stored = Unset

Ledgers == UNION {[1..n -> RawRow] : n \in 0..MaxRows}

Init ==
    /\ impl \in Impls
    /\ input \in Ledgers
    /\ df = WithIndex(input)
    /\ pc = "start"
    /\ report = <<>>
    /\ orders = <<>>
    /\ ref = EmptyRef
    /\ i = 0
    /\ escaped = FALSE
    /\ columns = InputColumns(impl)
    /\ pass = 1
    /\ first = <<>>
    /\ stored = Unset
    /\ OthersIdle

\* ---------------------------------------------------------------- dict-based helpers
\* ref[order] = item: a dict store overwrites an existing key
DictStore(rf, k, v) == [x \in (DOMAIN rf) \cup {k} |-> IF x = k THEN v ELSE rf[x]]

\* ref after the first n iterations of: for i in range(n): ref[order] = item
RECURSIVE BuildRef(_, _)
BuildRef(ords, n) ==
    IF n = 0 THEN EmptyRef
    ELSE DictStore(BuildRef(ords, n - 1), ords[n].order, ords[n].title)

\* the body of the backfill loop for the row at 0-based position j:
\*     try:
\*         if report[title].iloc[j] is np.nan:
\*             report[title].iloc[j] = ref[report[order].iloc[j]]
\*     except KeyError:
\*         print('key not found')
\* exc tells whether an exception leaves the loop body
BackfillRowUncaught(rep, rf, j) ==
    LET r == rep[j + 1] IN
    IF isna(r.title)
    THEN IF r.order \in DOMAIN rf
         THEN [report |-> [rep EXCEPT ![j + 1].title = rf[r.order]], exc |-> FALSE]
         ELSE [report |-> rep, exc |-> TRUE]
    ELSE [report |-> rep, exc |-> FALSE]
BackfillRow(rep, rf, j) ==
    LET r == rep[j + 1] IN
    IF isna(r.title)
    THEN IF r.order \in DOMAIN rf
         THEN [report |-> [rep EXCEPT ![j + 1].title = rf[r.order]], exc |-> FALSE]
         ELSE [report |-> rep, exc |-> FALSE]
    ELSE [report |-> rep, exc |-> FALSE]

\* ================================================================ calculate_payout.py
\* csv.replace('--', np.nan, inplace=True)
PayoutReplace ==
    /\ impl = "calculate_payout" /\ pc = "start"
    /\ df' = ReplaceAll(df)
    /\ pc' = "replaced"
    /\ UNCHANGED <<impl, input, report, orders, ref, i, escaped, columns, pass, first, stored>>
    /\ UNCHANGED others

\* report = csv[csv['Type'] != 'Payout'] (then column projection and rename)
PayoutRows(t) == SelectSeq(t, LAMBDA r : r.type # "Payout")
PayoutFilter ==
    /\ impl = "calculate_payout" /\ pc = "replaced"
    /\ HasNeeded
    /\ report' = PayoutRows(df)
    /\ columns' = {"Date", "Type", "Order number", "Net amount", "Item title"}
    /\ pc' = "filtered"
    /\ UNCHANGED <<impl, input, df, orders, ref, i, escaped, pass, first, stored>>
    /\ UNCHANGED others

\* orders = report[report['Type'] == 'Order']; ref = dict()
PayoutOrderRows(t) == SelectSeq(t, LAMBDA r : r.type = "Order")
PayoutOrders ==
    /\ impl = "calculate_payout" /\ pc = "filtered"
    /\ orders' = PayoutOrderRows(report)
    /\ ref' = EmptyRef
    /\ i' = 0
    /\ pc' = "build"
    /\ UNCHANGED <<impl, input, df, report, escaped, columns, pass, first, stored>>
    /\ UNCHANGED others

\* for i in range(n): ref[order] = item
PayoutBuildRef ==
    /\ impl = "calculate_payout" /\ pc = "build" /\ i < Len(orders)
    /\ ref' = DictStore(ref, orders[i + 1].order, orders[i + 1].title)
    /\ i' = i + 1
    /\ UNCHANGED <<impl, pc, input, df, report, orders, escaped, columns, pass, first, stored>>
    /\ UNCHANGED others

\* n, m = report.shape
PayoutShapeEarly ==
    /\ impl = "calculate_payout" /\ pc = "build"
    /\ i' = 0
    /\ pc' = "backfill"
    /\ UNCHANGED <<impl, input, df, report, orders, ref, escaped, columns, pass, first, stored>>
    /\ UNCHANGED others
PayoutShape ==
    /\ impl = "calculate_payout" /\ pc = "build" /\ i = Len(orders)
    /\ i' = 0
    /\ pc' = "backfill"
    /\ UNCHANGED <<impl, input, df, report, orders, ref, escaped, columns, pass, first, stored>>
    /\ UNCHANGED others

\* for i in range(n): try ... except KeyError
PayoutBackfill ==
    /\ impl = "calculate_payout" /\ pc = "backfill" /\ i < Len(report)
    /\ LET out == BackfillRow(report, ref, i) IN
       /\ report' = out.report
       /\ escaped' = out.exc
       /\ pc' = IF out.exc THEN "raised" ELSE pc
    /\ i' = i + 1
    /\ UNCHANGED <<impl, input, df, orders, ref, columns, pass, first, stored>>
    /\ UNCHANGED others

\* print(report)
PayoutPrint ==
    /\ impl = "calculate_payout" /\ pc = "backfill" /\ i = Len(report)
    /\ pc' = "done"
    /\ UNCHANGED <<impl, input, df, report, orders, ref, i, escaped, columns, pass, first, stored>>
    /\ UNCHANGED others

\* ================================================================ app/app.py transform
\* df.replace('--', np.nan, inplace=True)
TransformReplace ==
    /\ impl = "transform" /\ pc = "start"
    /\ df' = ReplaceAll(df)
    /\ pc' = "replaced"
    /\ UNCHANGED <<impl, input, report, orders, ref, i, escaped, columns, pass, first, stored>>
    /\ UNCHANGED others

\* report = df[df['Type'] == 'Order'] (then column projection and renames)
TransformRows(t) == SelectSeq(t, LAMBDA r : r.type = "Order")
TransformFilter ==
    /\ impl = "transform" /\ pc = "replaced"
    /\ HasNeeded
    /\ report' = TransformRows(df)
    /\ columns' = {"date", "type", "order", "net", "title", "buyer"}
    /\ pc' = "filtered"
    /\ UNCHANGED <<impl, input, df, orders, ref, i, escaped, pass, first, stored>>
    /\ UNCHANGED others

\* orders = report[report['type'] == 'order']; ref = dict()
\* the column holds the export's spelling 'Order', the comparison is with 'order'
TransformOrderRows(t) == SelectSeq(t, LAMBDA r : r.type = "order")
TransformOrders ==
    /\ impl = "transform" /\ pc = "filtered"
    /\ orders' = TransformOrderRows(report)
    /\ ref' = EmptyRef
    /\ i' = 0
    /\ pc' = "build"
    /\ UNCHANGED <<impl, input, df, report, escaped, columns, pass, first, stored>>
    /\ UNCHANGED others

\* for i in range(n): ref[order] = item   (the whole loop), then n, m = report.shape
TransformBuildLoop ==
    /\ impl = "transform" /\ pc = "build"
    /\ ref' = BuildRef(orders, Len(orders))
    /\ i' = 0
    /\ pc' = "backfill"
    /\ UNCHANGED <<impl, input, df, report, orders, escaped, columns, pass, first, stored>>
    /\ UNCHANGED others

\* for i in range(n): try ... except KeyError
TransformBackfill ==
    /\ impl = "transform" /\ pc = "backfill" /\ i < Len(report)
    /\ LET out == BackfillRow(report, ref, i) IN
       /\ report' = out.report
       /\ escaped' = out.exc
       /\ pc' = IF out.exc THEN "raised" ELSE pc
    /\ i' = i + 1
    /\ UNCHANGED <<impl, input, df, orders, ref, columns, pass, first, stored>>
    /\ UNCHANGED others

\* return report
TransformReturn ==
    /\ impl = "transform" /\ pc = "backfill" /\ i = Len(report)
    /\ pc' = "done"
    /\ UNCHANGED <<impl, input, df, report, orders, ref, i, escaped, columns, pass, first, stored>>
    /\ UNCHANGED others

\* ================================================================ parse_contents helpers
\* df['Item title'].replace('--', None)
ReplaceTitle(t) == [j \in 1..Len(t) |-> [t[j] EXCEPT !.title = ReplaceCell(t[j].title)]]

\* df[order.notna() & title.notna()].groupby('Order number')['Item title'].first()
\* the rows of the group of order number o, in table order
GroupRows(t, o) == {j \in 1..Len(t) : notna(t[j].order) /\ notna(t[j].title) /\ t[j].order = o}
Lowest(S) == CHOOSE j \in S : \A k \in S : j <= k
Highest(S) == CHOOSE j \in S : \A k \in S : j >= k
GroupFirstLast(t, o) == t[Highest(GroupRows(t, o))].title
GroupFirst(t, o) == t[Lowest(GroupRows(t, o))].title
TitleMapping(t) ==
    [o \in {t[j].order : j \in {k \in 1..Len(t) : notna(t[k].order) /\ notna(t[k].title)}}
        |-> GroupFirst(t, o)]

\* df.loc[df['Order number'].notna(), 'Item title'] = df['Order number'].map(title_mapping)
\* Series.map gives NaN for a key the mapping does not hold
MapLookup(m, k) == IF k \in DOMAIN m THEN m[k] ELSE NaN
ApplyMappingMatched(t, m) ==
    SelectSeq([j \in 1..Len(t) |-> IF notna(t[j].order)
                                   THEN [t[j] EXCEPT !.title = MapLookup(m, t[j].order)]
                                   ELSE t[j]],
              LAMBDA r : r.order \in DOMAIN m)
ApplyMapping(t, m) ==
    [j \in 1..Len(t) |-> IF notna(t[j].order)
                         THEN [t[j] EXCEPT !.title = MapLookup(m, t[j].order)]
                         ELSE t[j]]

\* df['Item title'].fillna('--')
FillnaTitle(t) == [j \in 1..Len(t) |-> [t[j] EXCEPT !.title = IF isna(@) THEN SENTINEL ELSE @]]

\* df['Order number'].fillna('--')
FillnaOrderSkipped(t) == t
FillnaOrder(t) == [j \in 1..Len(t) |-> [t[j] EXCEPT !.order = IF isna(@) THEN SENTINEL ELSE @]]

\* ================================================================ hoold.py parse_contents
\* df = pd.read_csv(...); the conversions of 'Transaction creation date' and
\* 'Net amount' that follow act on columns this table does not carry
HooldRead ==
    /\ impl = "hoold" /\ pc = "start"
    /\ HasNeeded
    /\ report' = df
    /\ pc' = "read"
    /\ UNCHANGED <<impl, input, df, orders, ref, i, escaped, columns, pass, first, stored>>
    /\ UNCHANGED others

\* df['Item title'] = df['Item title'].replace('--', None)
HooldReplaceTitle ==
    /\ impl = "hoold" /\ pc = "read"
    /\ HasNeeded
    /\ report' = ReplaceTitle(report)
    /\ pc' = "replaced"
    /\ UNCHANGED <<impl, input, df, orders, ref, i, escaped, columns, pass, first, stored>>
    /\ UNCHANGED others

\* title_mapping = df[...].groupby('Order number')['Item title'].first()
HooldTitleMapping ==
    /\ impl = "hoold" /\ pc = "replaced"
    /\ HasNeeded
    /\ ref' = TitleMapping(report)
    /\ pc' = "mapped"
    /\ UNCHANGED <<impl, input, df, report, orders, i, escaped, columns, pass, first, stored>>
    /\ UNCHANGED others

\* df.loc[df['Order number'].notna(), 'Item title'] = df['Order number'].map(title_mapping)
HooldApply ==
    /\ impl = "hoold" /\ pc = "mapped"
    /\ HasNeeded
    /\ report' = ApplyMapping(report, ref)
    /\ pc' = "applied"
    /\ UNCHANGED <<impl, input, df, orders, ref, i, escaped, columns, pass, first, stored>>
    /\ UNCHANGED others

\* fillna('--') and return df, message
HooldFillna ==
    /\ impl = "hoold" /\ pc = "applied"
    /\ HasNeeded
    /\ report' = FillnaTitle(report)
    /\ pc' = "done"
    /\ UNCHANGED <<impl, input, df, orders, ref, i, escaped, columns, pass, first, stored>>
    /\ UNCHANGED others

\* ================================================================ gen_dash_app_1.py parse_contents
\* df = pd.read_csv(...); the conversions of 'Order creation date' and of the
\* numeric columns that follow act on columns this table does not carry
GenRead ==
    /\ impl = "gen_dash" /\ pc = "start"
    /\ HasNeeded
    /\ report' = df
    /\ pc' = "read"
    /\ UNCHANGED <<impl, input, df, orders, ref, i, escaped, columns, pass, first, stored>>
    /\ UNCHANGED others

\* df['Item title'] = df['Item title'].replace('--', None)
GenReplaceTitle ==
    /\ impl = "gen_dash" /\ pc = "read"
    /\ HasNeeded
    /\ report' = ReplaceTitle(report)
    /\ pc' = "replaced"
    /\ UNCHANGED <<impl, input, df, orders, ref, i, escaped, columns, pass, first, stored>>
    /\ UNCHANGED others

\* title_mapping = df[...].groupby('Order number')['Item title'].first()
GenTitleMapping ==
    /\ impl = "gen_dash" /\ pc = "replaced"
    /\ HasNeeded
    /\ ref' = TitleMapping(report)
    /\ pc' = "mapped"
    /\ UNCHANGED <<impl, input, df, report, orders, i, escaped, columns, pass, first, stored>>
    /\ UNCHANGED others

\* df.loc[df['Order number'].notna(), 'Item title'] = df['Order number'].map(title_mapping)
GenApply ==
    /\ impl = "gen_dash" /\ pc = "mapped"
    /\ HasNeeded
    /\ report' = ApplyMapping(report, ref)
    /\ pc' = "applied"
    /\ UNCHANGED <<impl, input, df, orders, ref, i, escaped, columns, pass, first, stored>>
    /\ UNCHANGED others

\* both fillna('--') blocks, df['Total Fees'] = df[fee_columns].sum(axis=1),
\* the date formatting and return df, message
GenFillna ==
    /\ impl = "gen_dash" /\ pc = "applied"
    /\ HasNeeded
    /\ report' = FillnaOrder(FillnaTitle(report))
    /\ columns' = columns \cup {"Total Fees"}
    /\ pc' = "done"
    /\ UNCHANGED <<impl, input, df, orders, ref, i, escaped, pass, first, stored>>
    /\ UNCHANGED others

Next ==
    \/ PayoutReplace \/ PayoutFilter \/ PayoutOrders \/ PayoutBuildRef
    \/ PayoutShape \/ PayoutBackfill \/ PayoutPrint
    \/ TransformReplace \/ TransformFilter \/ TransformOrders \/ TransformBuildLoop
    \/ TransformBackfill \/ TransformReturn
    \/ HooldRead \/ HooldReplaceTitle \/ HooldTitleMapping \/ HooldApply \/ HooldFillna
    \/ GenRead \/ GenReplaceTitle \/ GenTitleMapping \/ GenApply \/ GenFillna

Spec == Init /\ [][Next]_vars

\* ================================================================ properties
\* a value is present when it is neither the raw sentinel nor the absent marker
Present(v) == v # SENTINEL /\ v # NaN
Absent(v) == ~Present(v)

\* the row of the file an output row stems from
InRow(r) == input[r.idx + 1]

\* rows of the file with order number o that carry a title
Titled(o) == {j \in 1..Len(input) : input[j].order = o /\ Present(input[j].title)}
\* ... restricted to the Order rows
TitledOrders(o) == {j \in Titled(o) : input[j].type = "Order"}
OrderRowsOf(o) == {j \in 1..Len(input) : input[j].order = o /\ input[j].type = "Order"}
Earliest(S) == CHOOSE j \in S : \A k \in S : j <= k

\* C1: in the dict-based construction the map holds, for an order number shared
\* by Order rows with titles, the title of the first such row, and a non-Order
\* row with that order number and no title ends up with that first title.
\* Stated for the calculate_payout.py script, the one dict-based script whose
\* construction loop stores anything (for transform see C8).
C1_DictFirstWins ==
    (impl = "calculate_payout" /\ pc \in {"backfill", "done"}) =>
        \A o \in OrderNumbers :
            (OrderRowsOf(o) # {} /\ OrderRowsOf(o) = TitledOrders(o)) =>
                /\ o \in DOMAIN ref
                /\ ref[o] = input[Earliest(OrderRowsOf(o))].title
                /\ pc = "done" =>
                       \A j \in 1..Len(report) :
                           (InRow(report[j]).order = o /\ InRow(report[j]).type # "Order"
                               /\ Absent(InRow(report[j]).title))
                           => report[j].title = input[Earliest(OrderRowsOf(o))].title

\* C2: after parse_contents every row with a present order number has the title
\* of the first row of the file that has this order number and a present title.
C2_ParseFirstWins ==
    (impl \in ParseImpls /\ pc = "done") =>
        \A j \in 1..Len(report) :
            LET o == InRow(report[j]).order IN
            (Present(o) /\ Titled(o) # {}) => report[j].title = input[Earliest(Titled(o))].title

C2_Witness ==
    /\ impl \in ParseImpls /\ pc = "done"
    /\ Len(input) = 3
    /\ input[1].order = "O1" /\ input[1].title = "Widget A"
    /\ input[2].order = "O1" /\ input[2].title = "Widget B"
    /\ input[3].order = "O1" /\ input[3].title = SENTINEL /\ input[3].type # "Order"
    /\ Len(report) = 3 /\ report[3].title = "Widget A"

Kept(im) ==
    {j \in 1..Len(input) : CASE im = "transform" -> input[j].type = "Order"
                             [] im = "calculate_payout" -> input[j].type # "Payout"
                             [] OTHER -> TRUE}
C4_PresentTitleKept ==
    (impl \in ParseImpls /\ pc = "done") =>
        \A j \in 1..Len(report) :
            LET r == InRow(report[j]) IN
            (Present(r.order) /\ Present(r.title)) => report[j].title = r.title

\* C5: after normalisation every row whose order number is present and is the
\* order number of an Order row with a title has a title.  Stated for the
\* calculate_payout.py script and parse_contents (transform never fills its
\* map, see C8).
C5_BackfillTotal ==
    (impl # "transform" /\ pc = "done") =>
        \A j \in 1..Len(report) :
            LET o == InRow(report[j]).order IN
            (Present(o) /\ TitledOrders(o) # {}) => Present(report[j].title)

\* C6: a row without an order number ('--' or empty) is never given a title by
\* parse_contents and puts no entry into the title mapping.
C6_NoOrderNoBackfill ==
    impl \in ParseImpls =>
        /\ pc \in {"mapped", "applied", "done"} => \A k \in DOMAIN ref : Present(k)
        /\ pc = "done" =>
               \A j \in 1..Len(report) :
                   LET r == InRow(report[j]) IN
                   Absent(r.order) =>
                       IF Present(r.title) THEN report[j].title = r.title
                                           ELSE Absent(report[j].title)

\* C7: in parse_contents of hoold.py the title mapping holds titles of Order
\* rows only, so a title a row is given is the title of an Order row with the
\* same order number.  Stated for the order numbers that are present (for the
\* sentinel as a key see C6).
C7_OnlyOrderTitles ==
    impl = "hoold" =>
        /\ pc \in {"mapped", "applied", "done"} =>
               \A o \in (DOMAIN ref) \cap OrderNumbers :
                   \E k \in TitledOrders(o) : input[k].title = ref[o]
        /\ pc = "done" =>
               \A j \in 1..Len(report) :
                   LET r == InRow(report[j]) IN
                   (Present(r.order) /\ Present(report[j].title) /\ report[j].title # r.title)
                       => \E k \in TitledOrders(r.order) : input[k].title = report[j].title

\* C8: in transform the map built by the construction loop has an entry for
\* the order number of every Order row of the report, so a row without a title
\* whose order number is in the report's Order rows gets the mapped title.
C8_TransformMapComplete ==
    (impl = "transform" /\ pc \in {"backfill", "done"}) =>
        \A j \in 1..Len(report) :
            (InRow(report[j]).type = "Order" /\ Present(InRow(report[j]).order)) =>
                /\ report[j].order \in DOMAIN ref
                /\ (pc = "done" /\ Absent(InRow(report[j]).title))
                       => report[j].title = ref[report[j].order]

\* C9: a row with an order number and no title, for whose order number no row
\* of the batch carries a title, keeps an absent title; no exception leaves
\* the normalisation and the pass reaches its end having visited every row.
Unmatched(r) == Present(r.order) /\ Absent(r.title) /\ Titled(r.order) = {}
C9_UnmatchedNonFatal ==
    /\ ~escaped
    /\ pc # "raised"
    /\ pc = "done" =>
           /\ impl \in DictImpls => i = Len(report)
           /\ \A j \in 1..Len(report) : Unmatched(InRow(report[j])) => Absent(report[j].title)

C9_Witness ==
    /\ impl \in DictImpls /\ pc = "done"
    /\ Len(report) = 3 /\ i = 3
    /\ Unmatched(InRow(report[1])) /\ isna(report[1].title)
    /\ Unmatched(InRow(report[3])) /\ isna(report[3].title)

\* C10: once sentinel normalisation is over, and before the rows are filtered,
\* the reference map is built or a title is looked up, no cell of the table
\* being worked on holds the sentinel '--', whatever its column.
Working == IF impl \in DictImpls /\ pc = "replaced" THEN df ELSE report
C10_SentinelGoneFirst ==
    pc \in {"replaced", "filtered", "build", "backfill", "mapped"} =>
        \A j \in 1..Len(Working) :
            /\ Working[j].type # SENTINEL
            /\ Working[j].order # SENTINEL
            /\ Working[j].title # SENTINEL

\* C15: transform leaves the caller's table as it was: when transform has
\* returned, df holds the values that were read from the file.
C15_InputUntouched ==
    (impl = "transform" /\ pc = "done") => df = WithIndex(input)

C21_ReadAfterFullBuild ==
    [][(impl \in DictImpls /\ pc = "backfill") =>
          (ref = BuildRef(orders, Len(orders)) /\ ref' = ref)]_vars
C21_Witness ==
    /\ impl = "calculate_payout" /\ pc = "backfill" /\ i > 0
    /\ Len(orders) > 1 /\ ref # EmptyRef
    /\ \E j \in 1..Len(report) : report[j].title # df[report[j].idx + 1].title

\* ================================================================ upload, failure and second pass
\* The normalisations started on a file that may lack one of the columns they
\* index, followed through update_output, and started once more on what the
\* first pass produced.
MaxPipeRows == 2

PipeImpls == {"transform", "hoold", "gen_dash"}
PipeLedgers == UNION {[1..n -> RawRow] : n \in 0..MaxPipeRows}

\* every label the normalisation of im indexes its table with
Required(im) == UNION {Needed(im, p) : p \in {"start", "read", "replaced", "mapped", "applied"}}

InitPipe ==
    /\ impl \in PipeImpls
    /\ input \in PipeLedgers
    /\ df = WithIndex(input)
    /\ pc = "start"
    /\ report = <<>>
    /\ orders = <<>>
    /\ ref = EmptyRef
    /\ i = 0
    /\ escaped = FALSE
    /\ \E missing \in {{}} \cup {{c} : c \in Required(impl)} : columns = InputColumns(impl) \ missing
    /\ pass = 1
    /\ first = <<>>
    /\ stored = Unset
    /\ OthersIdle

\* transform: df[df['Type'] == 'Order'] or the projection that follows indexes a
\* label the table lacks; the KeyError leaves transform
TransformKeyError ==
    /\ impl = "transform" /\ pc = "replaced"
    /\ ~HasNeeded
    /\ escaped' = TRUE
    /\ pc' = "raised"
    /\ UNCHANGED <<impl, input, df, report, orders, ref, i, columns, pass, first, stored>>
    /\ UNCHANGED others

\* hoold.py parse_contents: except Exception as e: return None, f'Error processing ...'
HooldFailPartial ==
    /\ impl = "hoold" /\ pc \in {"start", "read", "replaced", "mapped", "applied"}
    /\ ~HasNeeded
    /\ pc' = "done"
    /\ UNCHANGED <<impl, input, df, report, orders, ref, i, escaped, columns, pass, first, stored>>
    /\ UNCHANGED others
HooldFail ==
    /\ impl = "hoold" /\ pc \in {"start", "read", "replaced", "mapped", "applied"}
    /\ ~HasNeeded
    /\ pc' = "failed"
    /\ UNCHANGED <<impl, input, df, report, orders, ref, i, escaped, columns, pass, first, stored>>
    /\ UNCHANGED others

\* gen_dash_app_1.py parse_contents: except Exception as e: return None, ...
GenFail ==
    /\ impl = "gen_dash" /\ pc \in {"start", "read", "replaced", "mapped", "applied"}
    /\ ~HasNeeded
    /\ pc' = "failed"
    /\ UNCHANGED <<impl, input, df, report, orders, ref, i, escaped, columns, pass, first, stored>>
    /\ UNCHANGED others

\* the 'stored-data' output: the table (with its month_year column) serialised
\* by to_json, or None
Stored(t, cols) == [kind |-> "table", rows |-> t, columns |-> cols]

\* update_output once parse_contents has returned: df is not None -> month_year
\* and to_json; else None, message, {'display': 'none'}
HooldUpdateOutput ==
    /\ impl = "hoold" /\ pc \in {"done", "failed"}
    /\ IF pc = "done"
       THEN /\ columns' = columns \cup {"month_year"}
            /\ stored' = Stored(report, columns')
       ELSE /\ stored' = None
            /\ UNCHANGED columns
    /\ pc' = "stored"
    /\ UNCHANGED <<impl, input, df, report, orders, ref, i, escaped, pass, first>>
    /\ UNCHANGED others

GenUpdateOutput ==
    /\ impl = "gen_dash" /\ pc \in {"done", "failed"}
    /\ IF pc = "done"
       THEN /\ columns' = columns \cup {"month_year"}
            /\ stored' = Stored(report, columns')
       ELSE /\ stored' = None
            /\ UNCHANGED columns
    /\ pc' = "stored"
    /\ UNCHANGED <<impl, input, df, report, orders, ref, i, escaped, pass, first>>
    /\ UNCHANGED others

\* DataFrame.to_csv(index=False) writes NaN as the empty field and a text as
\* itself; pd.read_csv reads the empty field as NaN and numbers the rows anew
ToCsvField(v) == IF v = NaN THEN "" ELSE v
ReadCsvField(f) == IF f = "" THEN NaN ELSE f
ToCsv(t) == [j \in 1..Len(t) |-> [type |-> ToCsvField(t[j].type), order |-> ToCsvField(t[j].order),
                                  title |-> ToCsvField(t[j].title)]]
ReadCsv(c) == [j \in 1..Len(c) |-> [idx |-> j - 1, type |-> ReadCsvField(c[j].type),
                                    order |-> ReadCsvField(c[j].order),
                                    title |-> ReadCsvField(c[j].title)]]

\* transform applied to the table transform returned
TransformAgain ==
    /\ impl = "transform" /\ pc = "done" /\ pass = 1
    /\ first' = report
    /\ df' = report
    /\ report' = <<>>
    /\ orders' = <<>>
    /\ ref' = EmptyRef
    /\ i' = 0
    /\ pass' = 2
    /\ pc' = "start"
    /\ UNCHANGED <<impl, input, escaped, columns, stored>>
    /\ UNCHANGED others

\* export_processed_data (read_json of stored-data, to_csv) and the upload of the
\* exported file: parse_contents starts on the table it produced
ParseAgain ==
    /\ impl \in ParseImpls /\ pc = "stored" /\ pass = 1
    /\ stored.kind = "table"
    /\ first' = stored.rows
    /\ df' = ReadCsv(ToCsv(stored.rows))
    /\ report' = <<>>
    /\ ref' = EmptyRef
    /\ pass' = 2
    /\ pc' = "start"
    /\ UNCHANGED <<impl, input, orders, i, escaped, columns, stored>>
    /\ UNCHANGED others

NextPipe ==
    \/ TransformReplace \/ TransformFilter \/ TransformOrders \/ TransformBuildLoop
    \/ TransformBackfill \/ TransformReturn \/ TransformKeyError \/ TransformAgain
    \/ HooldRead \/ HooldReplaceTitle \/ HooldTitleMapping \/ HooldApply \/ HooldFillna
    \/ HooldFail \/ HooldUpdateOutput
    \/ GenRead \/ GenReplaceTitle \/ GenTitleMapping \/ GenApply \/ GenFillna
    \/ GenFail \/ GenUpdateOutput
    \/ ParseAgain

SpecPipe == InitPipe /\ [][NextPipe]_vars

\* C13: a second application of the normalisation to the table the first one
\* produced succeeds and returns that table unchanged.
C13_Idempotent ==
    pass = 2 =>
        /\ pc \notin {"raised", "failed"}
        /\ pc = "done" => report = first

\* the file lacks a column the normalisation indexes
LacksRequired ==
    IF impl = "transform"
    THEN pc \in {"start", "replaced", "raised"} /\ ~(Required(impl) \subseteq columns)
    ELSE ~(Required(impl) \subseteq columns)

\* C14: when the uploaded file lacks a column the normalisation indexes, no table
\* is returned or stored: parse_contents ends in its except clause and
\* update_output stores None; transform ends with the KeyError and returns nothing.
C14_SchemaFailure ==
    (pass = 1 /\ LacksRequired) =>
        /\ pc # "done"
        /\ stored \in {Unset, None}
        /\ pc = "stored" => stored = None
        /\ impl = "transform" => report = <<>>
C14_Witness ==
    /\ impl \in ParseImpls /\ pass = 1 /\ LacksRequired
    /\ "Order number" \notin columns
    /\ pc = "stored" /\ stored = None
    /\ \E j \in 1..Len(report) : report[j].title # df[j].title

\* ================================================================ numeric coercion
\* The monetary cell of one row, followed through
\*   pd.to_numeric(col.astype(str).str.replace(r'[^\d.-]', '', regex=True), errors='coerce')
\* of hoold.py and the same expression followed by .fillna(0) of gen_dash_app_1.py.
\* A text is a sequence of characters.  A float is [kind |-> "num"] with sign,
\* mantissa and number of decimals, kept normalised so that equal records are
\* equal numbers; [kind |-> "nan"] is the float NaN (the absent marker).
MaxCellLen == 3

NaNFloat == [kind |-> "nan"]
ValueError == [kind |-> "ValueError"]
Text(chars) == [kind |-> "text", chars |-> chars]

Digits == {"0", "1", "2", "3", "4", "5", "6", "7", "8", "9"}
DigitVal(c) == CHOOSE n \in 0..9 : <<"0", "1", "2", "3", "4", "5", "6", "7", "8", "9">>[n + 1] = c

\* Series.astype(str): the text itself, 'nan' for an empty cell
AsStr(v) == IF v.kind = "nan" THEN <<"n", "a", "n">> ELSE v.chars

\* str.replace(r'[^\d.-]', '', regex=True): only digits, '.' and '-' stay
KeptChar(c) == c \in Digits \cup {".", "-"}
StripFormatting(chars) == SelectSeq(chars, KeptChar)

RECURSIVE DecValue(_)
DecValue(ds) ==
    IF ds = <<>> THEN 0
    ELSE 10 * DecValue(SubSeq(ds, 1, Len(ds) - 1)) + DigitVal(ds[Len(ds)])

RECURSIVE Normalise(_, _, _)
Normalise(neg, mant, exp) ==
    IF mant = 0 THEN [kind |-> "num", neg |-> FALSE, mant |-> 0, exp |-> 0]
    ELSE IF exp > 0 /\ mant % 10 = 0 THEN Normalise(neg, mant \div 10, exp - 1)
    ELSE [kind |-> "num", neg |-> neg, mant |-> mant, exp |-> exp]

\* the decimal literals the float parser accepts among texts of digits, '.' and
\* '-': an optional leading '-', digits with at most one '.', at least one digit
IsDecimal(chars) ==
    LET body == IF chars # <<>> /\ chars[1] = "-" THEN Tail(chars) ELSE chars
    IN /\ \A k \in 1..Len(body) : body[k] \in Digits \cup {"."}
       /\ Cardinality({k \in 1..Len(body) : body[k] = "."}) <= 1
       /\ \E k \in 1..Len(body) : body[k] \in Digits
DecimalOf(chars) ==
    LET neg == chars[1] = "-"
        body == IF neg THEN Tail(chars) ELSE chars
        dots == {k \in 1..Len(body) : body[k] = "."}
        decimals == IF dots = {} THEN 0 ELSE Len(body) - (CHOOSE k \in dots : TRUE)
    IN Normalise(neg, DecValue(SelectSeq(body, LAMBDA c : c \in Digits)), decimals)

\* pd.to_numeric(..., errors='coerce') on one text
ToNumericRaise(chars) == IF IsDecimal(chars) THEN DecimalOf(chars) ELSE ValueError
ToNumeric(chars) == IF IsDecimal(chars) THEN DecimalOf(chars) ELSE NaNFloat

\* .fillna(0)
Fillna0(v) == IF v.kind = "nan" THEN Normalise(FALSE, 0, 0) ELSE v

CellChars == {"$", ",", "1", "5", ".", "-", "a"}
Dollar1234_56 == <<"$", "1", ",", "2", "3", "4", ".", "5", "6">>
SentinelChars == <<"-", "-">>
AbcChars == <<"a", "b", "c">>
CellTexts == UNION {[1..n -> CellChars] : n \in 0..MaxCellLen}
                 \cup {Dollar1234_56, SentinelChars, AbcChars}
Cells == {Text(t) : t \in CellTexts} \cup {NaNFloat}

InitCoerce ==
    /\ cell \in Cells
    /\ coerced = NaNFloat
    /\ cpc = "raw"
    /\ LedgerIdle /\ AggIdle /\ SqlIdle /\ ColIdle /\ ValIdle /\ RestIdle

\* hoold.py: df['Net amount'] = pd.to_numeric(...); an exception raised here is
\* caught by parse_contents' except clause, which returns None
HooldCoerce ==
    /\ cpc = "raw"
    /\ LET v == ToNumeric(StripFormatting(AsStr(cell)))
       IN /\ coerced' = v
          /\ cpc' = IF v = ValueError THEN "failed" ELSE "hoold"
    /\ UNCHANGED cell
    /\ UNCHANGED <<ledgerVars, aggVars, sqlVars, colVars, valVars, restVars>>

\* gen_dash_app_1.py: df[col] = pd.to_numeric(...).fillna(0) for a numeric column
GenCoerce ==
    /\ cpc = "raw"
    /\ LET v == ToNumeric(StripFormatting(AsStr(cell)))
       IN /\ coerced' = IF v = ValueError THEN v ELSE Fillna0(v)
          /\ cpc' = IF v = ValueError THEN "failed" ELSE "gen"
    /\ UNCHANGED cell
    /\ UNCHANGED <<ledgerVars, aggVars, sqlVars, colVars, valVars, restVars>>

NextCoerce == HooldCoerce \/ GenCoerce

SpecCoerce == InitCoerce /\ [][NextCoerce]_vars

\* the number 1234.56
Num1234_56 == [kind |-> "num", neg |-> FALSE, mant |-> 123456, exp |-> 2]

\* C11: the coercion of Net amount in hoold.py's parse_contents never fails; it
\* turns "$1,234.56" into the number 1234.56, turns "--" and "abc" into the
\* absent marker, and stores either a number or the absent marker for any cell.
C11_CoercionBestEffort ==
    /\ cpc # "failed"
    /\ cpc = "hoold" =>
          /\ coerced.kind \in {"num", "nan"}
          /\ cell = Text(Dollar1234_56) => coerced = Num1234_56
          /\ cell = Text(SentinelChars) => coerced = NaNFloat
          /\ cell = Text(AbcChars) => coerced = NaNFloat
          /\ (cell.kind = "text" /\ \A k \in 1..Len(cell.chars) : cell.chars[k] \notin Digits)
                => coerced = NaNFloat
C11_Witness ==
    cpc = "hoold" /\ cell = Text(Dollar1234_56) /\ coerced = Num1234_56

\* C12: in gen_dash_app_1.py's parse_contents a monetary cell that is "--" or
\* does not parse as a number is stored as the absent marker, never as a number.
C12_AbsentNotZero ==
    (cpc = "gen" /\ ~IsDecimal(StripFormatting(AsStr(cell)))) => coerced = NaNFloat


\* ================================================================ group-and-sum aggregation
\* groupby(key)[monetary column].sum() as calculate_payout.py computes it on the
\* column read from the file (no numeric conversion is applied to it) and as
\* hoold.py computes it on the column parse_contents has converted.
MaxAggRows == 3

AggImpls == {"calculate_payout", "hoold"}
AggKeys == {"d1", "d2"}
Ten == <<"1", "0">>
Twenty == <<"2", "0">>
\* the monetary cell in the file: '--', the empty cell, '10', '20'
AmountCells == {Text(SentinelChars), NaNFloat, Text(Ten), Text(Twenty)}
AggRow == [key : AggKeys, net : AmountCells]
AggTables == UNION {[1..n -> AggRow] : n \in 0..MaxAggRows}

InitAgg ==
    /\ aggImpl \in AggImpls
    /\ aggRows \in AggTables
    /\ aggCol = <<>>
    /\ totals = <<>>
    /\ apc = "file"
    /\ LedgerIdle /\ CoerceIdle /\ SqlIdle /\ ColIdle /\ ValIdle /\ RestIdle

\* pd.read_csv: a column whose non-empty cells are all numbers is float64,
\* any other column keeps its cells as text; an empty cell is NaN in both
ReadsAsFloat(rows) ==
    \A j \in 1..Len(rows) : rows[j].net.kind = "text" => IsDecimal(rows[j].net.chars)
ReadCsvColumn(rows) ==
    [j \in 1..Len(rows) |->
        IF rows[j].net.kind = "text" /\ ReadsAsFloat(rows)
        THEN DecimalOf(rows[j].net.chars) ELSE rows[j].net]

\* csv.replace('--', np.nan, inplace=True) on the column
ReplaceSentinel(col) == [j \in 1..Len(col) |-> IF col[j] = Text(SentinelChars) THEN NaNFloat ELSE col[j]]

RECURSIVE Pow10(_)
Pow10(n) == IF n = 0 THEN 1 ELSE 10 * Pow10(n - 1)
Signed(v) == IF v.neg THEN 0 - v.mant ELSE v.mant
Add(a, b) ==
    LET e == IF a.exp > b.exp THEN a.exp ELSE b.exp
        t == Signed(a) * Pow10(e - a.exp) + Signed(b) * Pow10(e - b.exp)
    IN Normalise(t < 0, IF t < 0 THEN 0 - t ELSE t, e)
Zero == Normalise(FALSE, 0, 0)

\* the + of two column values: numbers add, texts concatenate
Plus(a, b) == IF a.kind = "text" THEN Text(a.chars \o b.chars) ELSE Add(a, b)

\* the sum of one group: null values are skipped, the first value is taken as it
\* is, each further value is added with +; a group without values gives 0
RECURSIVE SumFrom(_, _)
SumFrom(acc, vals) ==
    IF vals = <<>> THEN acc
    ELSE IF Head(vals).kind = "nan" THEN SumFrom(acc, Tail(vals))
    ELSE IF acc.kind = "nan" THEN SumFrom(Head(vals), Tail(vals))
    ELSE SumFrom(Plus(acc, Head(vals)), Tail(vals))
GroupSum(vals) == LET t == SumFrom(NaNFloat, vals) IN IF t.kind = "nan" THEN Zero ELSE t

\* the positions of the rows of group k, and the values of a column at them
RECURSIVE ValuesOf(_, _, _)
ValuesOf(rows, col, k) ==
    IF rows = <<>> THEN <<>>
    ELSE (IF Head(rows).key = k THEN <<Head(col)>> ELSE <<>>) \o ValuesOf(Tail(rows), Tail(col), k)
GroupKeys(rows) == {rows[j].key : j \in 1..Len(rows)}
GroupBySum(rows, col) == [k \in GroupKeys(rows) |-> GroupSum(ValuesOf(rows, col, k))]

\* calculate_payout.py: csv = pd.read_csv(...); csv.replace('--', np.nan, inplace=True)
AggPayoutColumn ==
    /\ aggImpl = "calculate_payout" /\ apc = "file"
    /\ aggCol' = ReplaceSentinel(ReadCsvColumn(aggRows))
    /\ apc' = "column"
    /\ UNCHANGED <<aggImpl, aggRows, totals>>
    /\ UNCHANGED <<ledgerVars, coerceVars, sqlVars, colVars, valVars, restVars>>

\* bydate = cabi.groupby(['Date'])['Net amount'].sum() (res = ... likewise by title)
AggPayoutSum ==
    /\ aggImpl = "calculate_payout" /\ apc = "column"
    /\ totals' = GroupBySum(aggRows, aggCol)
    /\ apc' = "summed"
    /\ UNCHANGED <<aggImpl, aggRows, aggCol>>
    /\ UNCHANGED <<ledgerVars, coerceVars, sqlVars, colVars, valVars, restVars>>

\* hoold.py parse_contents: df['Net amount'] = pd.to_numeric(...)
AggHooldColumn ==
    /\ aggImpl = "hoold" /\ apc = "file"
    /\ aggCol' = [j \in 1..Len(aggRows) |-> ToNumeric(StripFormatting(AsStr(aggRows[j].net)))]
    /\ apc' = "column"
    /\ UNCHANGED <<aggImpl, aggRows, totals>>
    /\ UNCHANGED <<ledgerVars, coerceVars, sqlVars, colVars, valVars, restVars>>

\* update_sales_trend: df.groupby('Transaction creation date')['Net amount'].sum()
AggHooldSum ==
    /\ aggImpl = "hoold" /\ apc = "column"
    /\ totals' = GroupBySum(aggRows, aggCol)
    /\ apc' = "summed"
    /\ UNCHANGED <<aggImpl, aggRows, aggCol>>
    /\ UNCHANGED <<ledgerVars, coerceVars, sqlVars, colVars, valVars, restVars>>

NextAgg == AggPayoutColumn \/ AggPayoutSum \/ AggHooldColumn \/ AggHooldSum

SpecAgg == InitAgg /\ [][NextAgg]_vars

\* the amount a file cell stands for, an absent one ('--' or empty) counting 0
AmountOf(c) ==
    IF c.kind = "text" /\ IsDecimal(c.chars) THEN DecimalOf(c.chars) ELSE Zero
RECURSIVE ZeroFilledTotal(_, _)
ZeroFilledTotal(rows, k) ==
    IF rows = <<>> THEN Zero
    ELSE Add(IF Head(rows).key = k THEN AmountOf(Head(rows).net) ELSE Zero,
             ZeroFilledTotal(Tail(rows), k))
\* a total read as a number (a total printed as the text '10' counts as 10)
AsNumber(t) == IF t.kind = "text" THEN ToNumeric(t.chars) ELSE t

\* C17: every group of the input appears in the result of the group-and-sum and
\* its total is the sum of its amounts with every absent amount counted as 0
\* (absent, 10, 20 gives 30; a group of absent amounts gives 0).
C17_AbsentCountsZero ==
    apc = "summed" =>
        /\ DOMAIN totals = GroupKeys(aggRows)
        /\ \A k \in GroupKeys(aggRows) : AsNumber(totals[k]) = ZeroFilledTotal(aggRows, k)


\* ================================================================ the SQL page
\* ebay_sql_query.py: process_upload stores the uploaded table in data_store and
\* in the SQLite table 'data'; run_query hands the text of the query box to
\* pd.read_sql_query on data_store's one shared connection.
MaxSqlRows == 6
MaxCalls == 3
HeadRows == 5

RowValues == {"a", "b"}
\* a table is its sequence of rows; validate_csv refuses a file without rows
NoTable == [kind |-> "absent"]
Table(rows) == [kind |-> "table", rows |-> rows]
UploadedRows == UNION {[1..n -> RowValues] : n \in 1..MaxSqlRows}

\* what the upload component delivers: nothing, a file validate_csv refuses, or a
\* CSV with labelled columns and at least one row
Uploads == {[kind |-> "none"], [kind |-> "refused"]} \cup {Table(r) : r \in UploadedRows}

Queries == {"", "SELECT * FROM data", "SELEC * FROM data", "SELECT nope FROM data",
            "DELETE FROM data", "DROP TABLE data"}

InitSql ==
    /\ ds_df = Table(<<>>)
    /\ ds_table = NoTable
    /\ ds_columns = <<>>
    /\ ds_original = EmptyRef
    /\ uploaded = NoTable
    /\ result = [callback |-> "none", outcome |-> "none"]
    /\ raised = None
    /\ calls = 0
    /\ LedgerIdle /\ CoerceIdle /\ AggIdle /\ ColIdle /\ ValIdle /\ RestIdle

\* df.head()
Head5(rows) == SubSeq(rows, 1, IF Len(rows) < HeadRows THEN Len(rows) ELSE HeadRows)

\* create_result_component: the rows shown, or the 'no results' text
CreateResultComponent(rows) ==
    IF rows = <<>> THEN [kind |-> "text", text |-> "Query returned no results"]
    ELSE [kind |-> "rows", rows |-> rows]

Info(text, n) == [text |-> text, n |-> n]

\* the result of validate_csv on the uploaded file: the message
ValidationMessage(up) ==
    IF up.kind = "refused" THEN "Please upload a CSV file" ELSE "File uploaded successfully!"

\* process_upload
ProcessUploadClearing ==
    /\ calls < MaxCalls
    /\ \E up \in Uploads :
          IF up.kind = "none"
          THEN /\ result' = [callback |-> "process_upload", outcome |-> "returned",
                             section |-> "none", status |-> "", component |-> None,
                             info |-> Info("", 0)]
               /\ UNCHANGED <<ds_df, ds_table, ds_columns, ds_original, uploaded>>
          ELSE IF up.kind = "refused"
          THEN /\ ds_df' = Table(<<>>)
               /\ ds_table' = NoTable
               /\ ds_columns' = <<>>
               /\ ds_original' = EmptyRef
               /\ result' = [callback |-> "process_upload", outcome |-> "returned",
                             section |-> "none", status |-> ValidationMessage(up),
                             component |-> None, info |-> Info("", 0)]
               /\ UNCHANGED uploaded
          ELSE /\ ds_df' = up
               /\ ds_table' = up
               /\ ds_columns' = <<"value">>
               /\ ds_original' = [c \in {"value"} |-> "Value"]
               /\ uploaded' = up
               /\ result' = [callback |-> "process_upload", outcome |-> "returned",
                             section |-> "block", status |-> ValidationMessage(up),
                             component |-> CreateResultComponent(Head5(up.rows)),
                             info |-> Info("Showing first 5 rows of", Len(up.rows))]
    /\ raised' = None
    /\ calls' = calls + 1
    /\ UNCHANGED <<ledgerVars, coerceVars, aggVars, colVars, valVars, restVars>>
ProcessUpload ==
    /\ calls < MaxCalls
    /\ \E up \in Uploads :
          IF up.kind = "none"
          THEN /\ result' = [callback |-> "process_upload", outcome |-> "returned",
                             section |-> "none", status |-> "", component |-> None,
                             info |-> Info("", 0)]
               /\ UNCHANGED <<ds_df, ds_table, ds_columns, ds_original, uploaded>>
          ELSE IF up.kind = "refused"
          THEN /\ result' = [callback |-> "process_upload", outcome |-> "returned",
                             section |-> "none", status |-> ValidationMessage(up),
                             component |-> None, info |-> Info("", 0)]
               /\ UNCHANGED <<ds_df, ds_table, ds_columns, ds_original, uploaded>>
          ELSE /\ ds_df' = up
               /\ ds_table' = up
               /\ ds_columns' = <<"value">>
               /\ ds_original' = [c \in {"value"} |-> "Value"]
               /\ uploaded' = up
               /\ result' = [callback |-> "process_upload", outcome |-> "returned",
                             section |-> "block", status |-> ValidationMessage(up),
                             component |-> CreateResultComponent(Head5(up.rows)),
                             info |-> Info("Showing first 5 rows of", Len(up.rows))]
    /\ raised' = None
    /\ calls' = calls + 1
    /\ UNCHANGED <<ledgerVars, coerceVars, aggVars, colVars, valVars, restVars>>

\* what SQLite does with the statement on the shared connection, given the table:
\* the rows of a SELECT, an error, or the execution of a statement that returns
\* no rows (after which pandas fails on the missing cursor.description)
Execute(q, tbl) ==
    CASE q = "SELECT * FROM data" ->
            IF tbl.kind = "table" THEN [kind |-> "rows", rows |-> tbl.rows, table |-> tbl]
            ELSE [kind |-> "error", table |-> tbl]
      [] q = "DELETE FROM data" ->
            IF tbl.kind = "table" THEN [kind |-> "no rows", table |-> Table(<<>>)]
            ELSE [kind |-> "error", table |-> tbl]
      [] q = "DROP TABLE data" ->
            IF tbl.kind = "table" THEN [kind |-> "no rows", table |-> NoTable]
            ELSE [kind |-> "error", table |-> tbl]
      [] OTHER -> [kind |-> "error", table |-> tbl]

\* the except branch of run_query
OnQueryErrorAll(q, d) ==
    [callback |-> "run_query", query |-> q, outcome |-> "returned",
     component |-> CreateResultComponent(d.rows), error |-> "Query error: ",
     info |-> Info("Showing first 5 rows of", Len(d.rows))]
OnQueryError(q, d) ==
    [callback |-> "run_query", query |-> q, outcome |-> "returned",
     component |-> CreateResultComponent(Head5(d.rows)), error |-> "Query error: ",
     info |-> Info("Showing first 5 rows of", Len(d.rows))]

\* run_query; for an empty query box the function evaluates dash.no_update, and
\* the module binds no name dash (from dash import Dash, ...): NameError
RunQuery ==
    /\ calls < MaxCalls
    /\ \E q \in Queries :
          IF q = ""
          THEN /\ result' = [callback |-> "run_query", query |-> q, outcome |-> "raised"]
               /\ raised' = [kind |-> "NameError"]
               /\ UNCHANGED ds_table
          ELSE LET x == Execute(q, ds_table)
               IN /\ ds_table' = x.table
                  /\ raised' = None
                  /\ result' =
                        IF x.kind = "rows"
                        THEN [callback |-> "run_query", query |-> q, outcome |-> "returned",
                              component |-> CreateResultComponent(x.rows), error |-> "",
                              info |-> Info("Query returned", Len(x.rows))]
                        ELSE OnQueryError(q, ds_df)
    /\ calls' = calls + 1
    /\ UNCHANGED <<ds_df, ds_columns, ds_original, uploaded>>
    /\ UNCHANGED <<ledgerVars, coerceVars, aggVars, colVars, valVars, restVars>>

NextSql == ProcessUpload \/ RunQuery

SpecSql == InitSql /\ [][NextSql]_vars

\* the queries SQLite rejects whatever the table is
RejectedQueries == {"SELEC * FROM data", "SELECT nope FROM data"}

\* C18: when run_query has run a non-empty query the database rejects, it has
\* returned (not raised): the error text starts with 'Query error: ' and the
\* component shows the first five rows of the stored table data_store.df.
C18_RejectedQueryReported ==
    (result.callback = "run_query" /\ result.query \in RejectedQueries) =>
        /\ result.outcome = "returned"
        /\ raised = None
        /\ result.error = "Query error: "
        /\ result.component = CreateResultComponent(Head5(ds_df.rows))
        /\ result.info = Info("Showing first 5 rows of", Len(ds_df.rows))
C18_Witness ==
    /\ result.callback = "run_query" /\ result.query = "SELECT nope FROM data"
    /\ Len(ds_df.rows) > HeadRows
    /\ result.outcome = "returned" /\ result.component.kind = "rows"
    /\ Len(result.component.rows) = HeadRows

\* C19: the SQLite table 'data' always holds the table of the most recent
\* successful upload, whatever queries have been run.
C19_SandboxReadOnly ==
    ds_table = uploaded


\* C22: when run_query has run with an empty query box it has returned (the
\* no-update marker, '' and the no-update marker) and no exception left it.
C22_EmptyQueryNoUpdate ==
    (result.callback = "run_query" /\ result.query = "") =>
        (result.outcome = "returned" /\ raised = None)

\* C24: a process_upload call that returns with the query section hidden (no
\* contents, or a file validate_csv refuses) changes neither data_store.df,
\* data_store.columns, data_store.original_columns nor the SQLite table 'data'.
C24_FailedUploadKeepsStore ==
    [][(result'.callback = "process_upload" /\ result'.section = "none") =>
          UNCHANGED <<ds_df, ds_table, ds_columns, ds_original>>]_vars
C24_Witness ==
    /\ result.callback = "process_upload" /\ result.section = "none"
    /\ result.status = "Please upload a CSV file"
    /\ ds_table.kind = "table" /\ ds_table = uploaded /\ ds_df = uploaded
    /\ ds_columns # <<>>

\* ================================================================ clean_column_names
\* ebay_sql_query.py: the renaming of the uploaded table's columns.  A name is a
\* sequence of characters.
MaxCols == 3

UpperCase == <<"A", "B", "C", "D", "E", "F", "G", "H", "I", "J", "K", "L", "M", "N", "O", "P", "Q", "R", "S", "T", "U", "V", "W", "X", "Y", "Z">>
LowerCase == <<"a", "b", "c", "d", "e", "f", "g", "h", "i", "j", "k", "l", "m", "n", "o", "p", "q", "r", "s", "t", "u", "v", "w", "x", "y", "z">>
Letters == {LowerCase[k] : k \in 1..26}

\* str.lower()
LowerChar(c) == IF \E k \in 1..26 : UpperCase[k] = c
                THEN LowerCase[CHOOSE k \in 1..26 : UpperCase[k] = c] ELSE c
Lower(name) == [k \in 1..Len(name) |-> LowerChar(name[k])]

\* re.sub(r'[^a-z0-9\s]', ' ', name)
IsSpace(c) == c \in {" ", "\t"}
Despecial(name) ==
    [k \in 1..Len(name) |-> IF name[k] \in Letters \cup Digits \/ IsSpace(name[k]) THEN name[k] ELSE " "]

\* re.sub(r'\s+', ' ', name)
RECURSIVE Collapse(_)
Collapse(name) ==
    IF name = <<>> THEN <<>>
    ELSE IF IsSpace(Head(name))
         THEN IF Len(name) > 1 /\ IsSpace(name[2]) THEN Collapse(Tail(name))
              ELSE <<" ">> \o Collapse(Tail(name))
         ELSE <<Head(name)>> \o Collapse(Tail(name))

\* name.split(): the maximal runs of non-space characters
RECURSIVE SplitFrom(_, _)
SplitFrom(word, rest) ==
    IF rest = <<>> THEN (IF word = <<>> THEN <<>> ELSE <<word>>)
    ELSE IF IsSpace(Head(rest))
         THEN (IF word = <<>> THEN <<>> ELSE <<word>>) \o SplitFrom(<<>>, Tail(rest))
         ELSE SplitFrom(Append(word, Head(rest)), Tail(rest))
Split(name) == SplitFrom(<<>>, name)

filler_words == {<<"t", "h", "e">>, <<"a">>, <<"a", "n">>, <<"a", "n", "d">>, <<"o", "r">>, <<"b", "u", "t">>, <<"i", "n">>, <<"o", "n">>, <<"a", "t">>, <<"t", "o">>, <<"f", "o", "r">>, <<"o", "f">>, <<"w", "i", "t", "h">>}

\* '_'.join(words)
RECURSIVE Join(_)
Join(words) ==
    IF words = <<>> THEN <<>>
    ELSE IF Len(words) = 1 THEN words[1]
    ELSE words[1] \o <<"_">> \o Join(Tail(words))

\* clean_column_name
CleanColumnNameNoPrefix(column) ==
    LET words == SelectSeq(Split(Collapse(Despecial(Lower(column)))), LAMBDA w : w \notin filler_words)
    IN IF words = <<>> THEN <<"c", "o", "l", "u", "m", "n">> ELSE Join(words)
clean_column_name(column) ==
    LET words == SelectSeq(Split(Collapse(Despecial(Lower(column)))), LAMBDA w : w \notin filler_words)
        name == Join(words)
    IN IF words = <<>> THEN <<"c", "o", "l", "u", "m", "n">>
       ELSE IF name[1] \notin Letters THEN <<"c", "o", "l", "_">> \o name
       ELSE name

\* str(counter) in f"{base_name}_{counter}"
RECURSIVE Str(_)
Str(n) ==
    IF n < 10 THEN <<CHOOSE c \in Digits : DigitVal(c) = n>>
    ELSE Str(n \div 10) \o <<CHOOSE c \in Digits : DigitVal(c) = n % 10>>

Range(f) == {f[k] : k \in DOMAIN f}

\* the while loop: the first of base, base_1, base_2, ... that is not in new_names
RECURSIVE FreshName(_, _, _, _)
FreshNameOnce(clean_name, base_name, counter, names) ==
    IF clean_name \in Range(names) THEN base_name \o <<"_">> \o Str(counter) ELSE clean_name
FreshName(clean_name, base_name, counter, names) ==
    IF clean_name \in Range(names)
    THEN FreshName(base_name \o <<"_">> \o Str(counter), base_name, counter + 1, names)
    ELSE clean_name

\* the for loop of clean_column_names over the columns not yet renamed
RECURSIVE CleanFrom(_, _, _)
CleanFrom(cols, names, originals) ==
    IF cols = <<>> THEN [new_names |-> names, original_names |-> originals]
    ELSE LET base == clean_column_name(Head(cols))
             clean == FreshName(base, base, 1, names)
         IN CleanFrom(Tail(cols), Append(names, clean), DictStore(originals, clean, Head(cols)))

ItemTitle == <<"I", "t", "e", "m", " ", "t", "i", "t", "l", "e">>
ItemDashTitle == <<"i", "t", "e", "m", "-", "t", "i", "t", "l", "e">>
ItemTitleUpper == <<"I", "T", "E", "M", " ", " ", "T", "I", "T", "L", "E">>
ItemTitle1 == <<"I", "t", "e", "m", " ", "t", "i", "t", "l", "e", " ", "1">>
The == <<"T", "h", "e">>
Dashes == <<"-", "-">>
FirstSt == <<"1", "s", "t">>
ColFirstSt == <<"c", "o", "l", " ", "1", "s", "t">>
ColumnWord == <<"c", "o", "l", "u", "m", "n">>
NetAmount == <<"N", "e", "t", " ", "a", "m", "o", "u", "n", "t", " ", "(", "$", ")">>
OfThe == <<"O", "f", " ", "t", "h", "e">>
\* labels as they occur in uploaded files: mixed case, punctuation, repeated
\* spaces, filler words only, a leading digit, and labels that clean to the
\* same name or to another label's suffixed name
SampleNames == {ItemTitle, ItemDashTitle, ItemTitleUpper, ItemTitle1, The, Dashes, FirstSt, ColFirstSt, ColumnWord, NetAmount, OfThe}

\* pd.read_csv delivers distinct labels
Headers == {h \in UNION {[1..n -> SampleNames] : n \in 0..MaxCols} :
               \A j, k \in 1..Len(h) : j # k => h[j] # h[k]}

InitColumns ==
    /\ header \in Headers
    /\ df_columns = header
    /\ new_names = <<>>
    /\ original_names = EmptyRef
    /\ ccpc = "start"
    /\ LedgerIdle /\ CoerceIdle /\ AggIdle /\ SqlIdle /\ ValIdle /\ RestIdle

\* df, original_names = clean_column_names(df)
CleanColumnNames ==
    /\ ccpc = "start"
    /\ LET r == CleanFrom(df_columns, <<>>, EmptyRef)
       IN /\ new_names' = r.new_names
          /\ original_names' = r.original_names
          /\ df_columns' = r.new_names
    /\ ccpc' = "done"
    /\ UNCHANGED header
    /\ UNCHANGED <<ledgerVars, coerceVars, aggVars, sqlVars, valVars, restVars>>

NextColumns == CleanColumnNames

SpecColumns == InitColumns /\ [][NextColumns]_vars

\* name is base or base followed by '_' and a number
IsSuffixed(name, base) ==
    \/ name = base
    \/ /\ Len(name) > Len(base) + 1
       /\ SubSeq(name, 1, Len(base) + 1) = base \o <<"_">>
       /\ \A k \in (Len(base) + 2)..Len(name) : name[k] \in Digits

\* C20: clean_column_names gives every column one cleaned name at its own
\* position (the cleaned form of its label, with a numeric suffix if that form
\* is taken), the cleaned names are pairwise distinct, and original_names maps
\* each cleaned name to the label the column at that position had.
C20_RenamingOneToOne ==
    ccpc = "done" =>
        /\ Len(new_names) = Len(header)
        /\ df_columns = new_names
        /\ \A j, k \in 1..Len(new_names) : j # k => new_names[j] # new_names[k]
        /\ DOMAIN original_names = Range(new_names)
        /\ \A j \in 1..Len(new_names) :
              /\ original_names[new_names[j]] = header[j]
              /\ IsSuffixed(new_names[j], clean_column_name(header[j]))
C20_Witness ==
    /\ ccpc = "done"
    /\ \E j, k \in 1..Len(header) :
          /\ j < k
          /\ clean_column_name(header[j]) = clean_column_name(header[k])
          /\ new_names[j] # new_names[k]
          /\ original_names[new_names[k]] = header[k]


\* ================================================================ validate_csv
\* ebay_sql_query.py validate_csv(contents, filename, max_size_mb=10), followed
\* statement by statement; an exception raised inside the try block goes to the
\* except clause.
MaxSizeMb == 10
BytesPerMb == 1048576

ReportCsv == <<"r", "e", "p", "o", "r", "t", ".", "c", "s", "v">>
ReportCsvUpper == <<"R", "E", "P", "O", "R", "T", ".", "C", "S", "V">>
ReportXlsx == <<"r", "e", "p", "o", "r", "t", ".", "x", "l", "s", "x">>
CsvNoDot == <<"c", "s", "v">>
Filenames == {ReportCsv, ReportCsvUpper, ReportXlsx, CsvNoDot}

Unnamed0 == <<"U", "n", "n", "a", "m", "e", "d", ":", " ", "0">>
UnnamedPrefix == <<"U", "n", "n", "a", "m", "e", "d", ":">>
\* the labels read_csv gives: labelled columns, or 'Unnamed: 0' for a blank label
ValHeaders == {<<ItemTitle>>, <<ItemTitle, ItemDashTitle>>, <<Unnamed0, ItemTitle>>, <<NetAmount, FirstSt>>}

\* an upload: the file name, whether contents splits at one comma into valid
\* base64 of valid UTF-8, the size of the decoded bytes, whether pd.read_csv
\* parses the text, and the table it gives
ValFiles ==
    [filename : Filenames, decodes : BOOLEAN,
     size : {1, MaxSizeMb * BytesPerMb, MaxSizeMb * BytesPerMb + 1},
     parses : BOOLEAN, nrows : 0..1, header : ValHeaders]

InitValidate ==
    /\ vfile \in ValFiles
    /\ vpc = "start"
    /\ vdecoded = FALSE
    /\ vret = Unset
    /\ LedgerIdle /\ CoerceIdle /\ AggIdle /\ SqlIdle /\ ColIdle /\ RestIdle

\* str.endswith / the match of '^Unnamed:'
EndsWith(name, suffix) ==
    Len(name) >= Len(suffix) /\ SubSeq(name, Len(name) - Len(suffix) + 1, Len(name)) = suffix
StartsWith(name, prefix) ==
    Len(name) >= Len(prefix) /\ SubSeq(name, 1, Len(prefix)) = prefix

Refusal(message) == [df |-> None, original_names |-> None, message |-> message]

\* if not filename.lower().endswith('.csv'): return None, None, "Please upload a CSV file"
ValidateExtension ==
    /\ vpc = "start"
    /\ IF EndsWith(Lower(vfile.filename), <<".", "c", "s", "v">>)
       THEN vpc' = "named" /\ UNCHANGED vret
       ELSE vpc' = "returned" /\ vret' = Refusal("Please upload a CSV file")
    /\ UNCHANGED <<vfile, vdecoded>>
    /\ UNCHANGED <<ledgerVars, coerceVars, aggVars, sqlVars, colVars, restVars>>

\* contents.split(','), base64.b64decode, the size check
ValidateSize ==
    /\ vpc = "named"
    /\ vdecoded' = TRUE
    /\ IF ~vfile.decodes THEN vpc' = "except" /\ UNCHANGED vret
       ELSE IF vfile.size > MaxSizeMb * BytesPerMb
       THEN vpc' = "returned" /\ vret' = Refusal("File size exceeds maximum allowed size")
       ELSE vpc' = "sized" /\ UNCHANGED vret
    /\ UNCHANGED vfile
    /\ UNCHANGED <<ledgerVars, coerceVars, aggVars, sqlVars, colVars, restVars>>

\* df = pd.read_csv(io.StringIO(decoded.decode('utf-8'))); df.empty; unnamed columns
ValidateTable ==
    /\ vpc = "sized"
    /\ IF ~vfile.parses THEN vpc' = "except" /\ UNCHANGED vret
       ELSE IF vfile.nrows = 0
       THEN vpc' = "returned" /\ vret' = Refusal("The CSV file is empty")
       ELSE IF \E k \in 1..Len(vfile.header) : StartsWith(vfile.header[k], UnnamedPrefix)
       THEN vpc' = "returned" /\ vret' = Refusal("CSV must have labeled columns")
       ELSE vpc' = "checked" /\ UNCHANGED vret
    /\ UNCHANGED <<vfile, vdecoded>>
    /\ UNCHANGED <<ledgerVars, coerceVars, aggVars, sqlVars, colVars, restVars>>

\* df, original_names = clean_column_names(df); return df, original_names, message
ValidateClean ==
    /\ vpc = "checked"
    /\ LET r == CleanFrom(vfile.header, <<>>, EmptyRef)
       IN vret' = [df |-> [kind |-> "table", nrows |-> vfile.nrows, columns |-> r.new_names],
                   original_names |-> [kind |-> "dict", map |-> r.original_names],
                   message |-> "File uploaded successfully!"]
    /\ vpc' = "returned"
    /\ UNCHANGED <<vfile, vdecoded>>
    /\ UNCHANGED <<ledgerVars, coerceVars, aggVars, sqlVars, colVars, restVars>>

\* except Exception as e: return None, None, f"Error processing file: {str(e)}"
ValidateExceptRaise ==
    /\ vpc = "except"
    /\ vpc' = "raised"
    /\ UNCHANGED <<vfile, vdecoded, vret>>
    /\ UNCHANGED <<ledgerVars, coerceVars, aggVars, sqlVars, colVars, restVars>>
ValidateExcept ==
    /\ vpc = "except"
    /\ vret' = Refusal("Error processing file: ")
    /\ vpc' = "returned"
    /\ UNCHANGED <<vfile, vdecoded>>
    /\ UNCHANGED <<ledgerVars, coerceVars, aggVars, sqlVars, colVars, restVars>>

NextValidate ==
    \/ ValidateExtension \/ ValidateSize \/ ValidateTable \/ ValidateClean \/ ValidateExcept

SpecValidate == InitValidate /\ [][NextValidate]_vars

\* the upload passes every check of validate_csv
PassesAll(f) ==
    /\ f.filename \in {ReportCsv, ReportCsvUpper}
    /\ f.decodes /\ f.size <= MaxSizeMb * BytesPerMb /\ f.parses /\ f.nrows > 0
    /\ Unnamed0 \notin Range(f.header)

\* C25: validate_csv never raises; when it has returned, it has returned a table
\* and a column mapping exactly when the upload passes every check and
\* (None, None, message) otherwise; the contents of a file whose name does not
\* end in .csv are never decoded.
C25_FailuresAreValues ==
    /\ vpc # "raised"
    /\ ~EndsWith(Lower(vfile.filename), <<".", "c", "s", "v">>) => ~vdecoded
    /\ vpc = "returned" =>
          /\ vret.message # ""
          /\ IF PassesAll(vfile)
             THEN vret.df # None /\ vret.original_names # None
             ELSE vret.df = None /\ vret.original_names = None
C25_Witness ==
    /\ vpc = "returned" /\ vdecoded /\ ~vfile.parses
    /\ vret = Refusal("Error processing file: ")

\* C30: every name clean_column_name returns is non-empty, starts with a
\* lowercase letter and consists of lowercase letters, digits and underscores.
C30_SqlFriendlyName ==
    \A k \in 1..Len(header) :
        LET name == clean_column_name(header[k])
        IN /\ name # <<>>
           /\ name[1] \in Letters
           /\ \A j \in 1..Len(name) : name[j] \in Letters \cup Digits \cup {"_"}
C30_Witness ==
    /\ ccpc = "done"
    /\ \E k \in 1..Len(header) : header[k] = FirstSt /\ new_names[k] = <<"c", "o", "l", "_", "1", "s", "t">>
    /\ \E k \in 1..Len(header) : header[k] = Dashes /\ new_names[k] = <<"c", "o", "l", "u", "m", "n">>


\* ================================================================ concurrent uploads
\* Two process_upload callbacks served by different threads of the web server,
\* each past validate_csv with its own local df and original_names, executing
\* lines 310-313 on the one module-level data_store.
MaxRaceRows == 2

Threads == {1, 2}
RaceHeaders == {<<ItemTitle>>, <<NetAmount, FirstSt>>}
RaceFiles == [rows : UNION {[1..n -> RowValues] : n \in 1..MaxRaceRows}, header : RaceHeaders]

\* what validate_csv returned for the file: the table with cleaned labels, and the mapping
FrameOf(f) == [kind |-> "table", rows |-> f.rows,
               columns |-> CleanFrom(f.header, <<>>, EmptyRef).new_names]
OriginalsOf(f) == CleanFrom(f.header, <<>>, EmptyRef).original_names

InitRace ==
    /\ tfile \in {tf \in [Threads -> RaceFiles] : tf[1] # tf[2]}
    /\ tpc = [t \in Threads |-> "validated"]
    /\ ds_df = Table(<<>>)
    /\ ds_table = NoTable
    /\ ds_columns = <<>>
    /\ ds_original = EmptyRef
    /\ uploaded = NoTable
    /\ result = [callback |-> "none", outcome |-> "none"]
    /\ raised = None
    /\ calls = 0
    /\ LedgerIdle /\ CoerceIdle /\ AggIdle /\ ColIdle /\ ValIdle
    /\ DashIdle /\ ViewIdle /\ ScrapeIdle

\* data_store.df = df
StoreDf(t) ==
    /\ tpc[t] = "validated"
    /\ ds_df' = FrameOf(tfile[t])
    /\ tpc' = [tpc EXCEPT ![t] = "df"]
    /\ UNCHANGED <<tfile, ds_table, ds_columns, ds_original, uploaded, result, raised, calls>>
    /\ UNCHANGED <<ledgerVars, coerceVars, aggVars, colVars, valVars, dashVars, viewVars, scrapeVars>>

\* data_store.create_table(df)
CreateTable(t) ==
    /\ tpc[t] = "df"
    /\ ds_table' = FrameOf(tfile[t])
    /\ tpc' = [tpc EXCEPT ![t] = "table"]
    /\ UNCHANGED <<tfile, ds_df, ds_columns, ds_original, uploaded, result, raised, calls>>
    /\ UNCHANGED <<ledgerVars, coerceVars, aggVars, colVars, valVars, dashVars, viewVars, scrapeVars>>

\* data_store.columns = df.columns.tolist()
StoreColumns(t) ==
    /\ tpc[t] = "table"
    /\ ds_columns' = FrameOf(tfile[t]).columns
    /\ tpc' = [tpc EXCEPT ![t] = "columns"]
    /\ UNCHANGED <<tfile, ds_df, ds_table, ds_original, uploaded, result, raised, calls>>
    /\ UNCHANGED <<ledgerVars, coerceVars, aggVars, colVars, valVars, dashVars, viewVars, scrapeVars>>

\* data_store.original_columns = original_names (and the return)
StoreOriginal(t) ==
    /\ tpc[t] = "columns"
    /\ ds_original' = OriginalsOf(tfile[t])
    /\ tpc' = [tpc EXCEPT ![t] = "done"]
    /\ UNCHANGED <<tfile, ds_df, ds_table, ds_columns, uploaded, result, raised, calls>>
    /\ UNCHANGED <<ledgerVars, coerceVars, aggVars, colVars, valVars, dashVars, viewVars, scrapeVars>>

NextRace == \E t \in Threads : StoreDf(t) \/ CreateTable(t) \/ StoreColumns(t) \/ StoreOriginal(t)

SpecRace == InitRace /\ [][NextRace]_vars

\* C23: once both process_upload calls have completed, data_store.df,
\* data_store.columns, data_store.original_columns and the table 'data' all come
\* from one and the same of the two uploads.
C23_StoreFromOneUpload ==
    (\A t \in Threads : tpc[t] = "done") =>
        \E t \in Threads :
            /\ ds_df = FrameOf(tfile[t])
            /\ ds_table = FrameOf(tfile[t])
            /\ ds_columns = FrameOf(tfile[t]).columns
            /\ ds_original = OriginalsOf(tfile[t])


\* ================================================================ upload events of the dashboards
\* update_output of hoold.py and gen_dash_app_1.py, one action per upload event;
\* parse_contents is the composition of the steps modelled above.
MaxUploads == 2
MaxDashRows == 1

DashImpls == {"hoold", "gen_dash"}
DashLedgers == UNION {[1..n -> RawRow] : n \in 0..MaxDashRows}

\* an upload event: no contents, a file that is neither csv nor xls, or a CSV
\* with its columns (all the script indexes, or without 'Item title') and rows
DashUploads(im) ==
    {[kind |-> "none"], [kind |-> "unsupported"]}
    \cup {[kind |-> "csv", columns |-> c, rows |-> r] :
             c \in {InputColumns(im), InputColumns(im) \ {"Item title"}}, r \in DashLedgers}

InitDash ==
    /\ dash_impl \in DashImpls
    /\ last_upload = [kind |-> "none"]
    /\ stored_data = None
    /\ display = "none"
    /\ uploads = <<>>
    /\ LedgerIdle /\ CoerceIdle /\ AggIdle /\ SqlIdle /\ ColIdle /\ ValIdle
    /\ ThreadIdle /\ ViewIdle /\ ScrapeIdle

\* parse_contents as a whole: the table, or None from the unsupported-type
\* return and from the except clause
Backfilled(t) == FillnaTitle(ApplyMapping(ReplaceTitle(t), TitleMapping(ReplaceTitle(t))))
ParseContents(im, up) ==
    IF up.kind = "csv" /\ Required(im) \subseteq up.columns
    THEN [kind |-> "table",
          rows |-> IF im = "gen_dash" THEN FillnaOrder(Backfilled(WithIndex(up.rows)))
                   ELSE Backfilled(WithIndex(up.rows)),
          columns |-> IF im = "gen_dash" THEN up.columns \cup {"Total Fees"} ELSE up.columns]
    ELSE None

\* the outputs of update_output for what parse_contents returned
UpdateOutputsStale(parsed, data, style) ==
    IF parsed # None
    THEN [data |-> Stored(parsed.rows, parsed.columns \cup {"month_year"}), display |-> "block"]
    ELSE [data |-> data, display |-> style]
UpdateOutputs(parsed, data, style) ==
    IF parsed # None
    THEN [data |-> Stored(parsed.rows, parsed.columns \cup {"month_year"}), display |-> "block"]
    ELSE [data |-> None, display |-> "none"]

\* hoold.py update_output(contents, filename)
HooldUploadEvent ==
    /\ dash_impl = "hoold" /\ Len(uploads) < MaxUploads
    /\ \E up \in DashUploads("hoold") :
          LET parsed == IF up.kind = "none" THEN None ELSE ParseContents("hoold", up)
              out == UpdateOutputs(parsed, stored_data, display)
          IN /\ stored_data' = out.data
             /\ display' = out.display
             /\ last_upload' = up
             /\ uploads' = Append(uploads, parsed # None)
    /\ UNCHANGED dash_impl
    /\ UNCHANGED <<ledgerVars, coerceVars, aggVars, sqlVars, colVars, valVars, threadVars, viewVars,
                   scrapeVars>>

\* gen_dash_app_1.py update_output(contents, filename)
GenUploadEvent ==
    /\ dash_impl = "gen_dash" /\ Len(uploads) < MaxUploads
    /\ \E up \in DashUploads("gen_dash") :
          LET parsed == IF up.kind = "none" THEN None ELSE ParseContents("gen_dash", up)
              out == UpdateOutputs(parsed, stored_data, display)
          IN /\ stored_data' = out.data
             /\ display' = out.display
             /\ last_upload' = up
             /\ uploads' = Append(uploads, parsed # None)
    /\ UNCHANGED dash_impl
    /\ UNCHANGED <<ledgerVars, coerceVars, aggVars, sqlVars, colVars, valVars, threadVars, viewVars,
                   scrapeVars>>

NextDash == HooldUploadEvent \/ GenUploadEvent

SpecDash == InitDash /\ [][NextDash]_vars

\* the upload is a supported file holding every column the normalisation indexes
ParsesOk(im, up) == up.kind = "csv" /\ Required(im) \subseteq up.columns

MaxViewRows == 2

DateCol == "Order creation date"
GrossCol == "Gross amount"
EarningsCol == "Order earnings"
ViewColumns == {DateCol, GrossCol, EarningsCol}

\* a timestamp is a day and an hour of that day
Stamps == {[day |-> 1, hour |-> 0], [day |-> 1, hour |-> 9], [day |-> 2, hour |-> 0]}
ViewRow == [date : Stamps, gross : {10, 20}, earnings : {4, 8}]
ViewTables == UNION {[1..n -> ViewRow] : n \in 0..MaxViewRows}

\* strictly increasing index sequences: what a native filter can keep of n rows
RECURSIVE KeptBy(_)
KeptBy(n) ==
    IF n = 0 THEN {<<>>}
    ELSE KeptBy(n - 1) \cup {Append(k, n) : k \in KeptBy(n - 1)}

InitViews ==
    /\ vstored \in {None} \cup {Table(t) : t \in ViewTables}
    /\ features \in SUBSET ViewColumns
    /\ shown \in IF vstored = None THEN {<<>>} ELSE KeptBy(Len(vstored.rows))
    /\ stats = Unset
    /\ figure = Unset
    /\ LedgerIdle /\ CoerceIdle /\ AggIdle /\ SqlIdle /\ ColIdle /\ ValIdle
    /\ ThreadIdle /\ DashIdle /\ ScrapeIdle

Before(a, b) == a.day < b.day \/ (a.day = b.day /\ a.hour <= b.hour)

\* update_output: start_date, end_date = min and max of the date column
DateRange(rows) ==
    IF rows = <<>> THEN None
    ELSE [kind |-> "range",
          start |-> CHOOSE a \in {rows[j].date : j \in DOMAIN rows} :
                       \A j \in DOMAIN rows : Before(a, rows[j].date),
          end |-> CHOOSE a \in {rows[j].date : j \in DOMAIN rows} :
                       \A j \in DOMAIN rows : Before(rows[j].date, a)]

\* df[(date >= start_date) & (date <= end_date)], skipped when a bound is None
DateFiltered(rows, range) ==
    IF range = None THEN rows
    ELSE SelectSeq(rows, LAMBDA r : Before(range.start, r.date) /\ Before(r.date, range.end))

\* a frame as a sequence of rows, each a function from the frame's columns
Cell(r, c) == CASE c = DateCol -> r.date [] c = GrossCol -> r.gross [] c = EarningsCol -> r.earnings
Frame(rows, cols) == [j \in DOMAIN rows |-> [c \in cols |-> Cell(rows[j], c)]]

\* dt.strftime('%Y-%m-%d') then pd.to_datetime: the hour is gone
StrfDate(d) == [day |-> d.day, hour |-> 0]

\* update_table: date filter, df[selected_features], date column formatted;
\* derived_virtual_data is that frame's rows at the indices the filter kept
TableRows(rows, feats) ==
    [j \in DOMAIN rows |->
        [c \in feats |-> IF c = DateCol THEN StrfDate(rows[j].date) ELSE Cell(rows[j], c)]]
FilteredRows(rows, feats, kept) ==
    [k \in DOMAIN kept |-> TableRows(DateFiltered(rows, DateRange(rows)), feats)[kept[k]]]

RECURSIVE ColumnSum(_, _)
ColumnSum(frame, c) ==
    IF frame = <<>> THEN 0 ELSE frame[1][c] + ColumnSum(Tail(frame), c)

\* 'if filtered_rows and filtered_indices: df = pd.DataFrame(filtered_rows)'
TableFiltered(rows, feats, kept) ==
    IF FilteredRows(rows, feats, kept) # <<>> /\ kept # <<>>
    THEN FilteredRows(rows, feats, kept)
    ELSE Frame(DateFiltered(rows, DateRange(rows)), ViewColumns)

\* update_summary_stats(stored_data, selected_features, ..., filtered_rows, filtered_indices)
UpdateSummaryStats ==
    /\ stats = Unset
    /\ IF vstored = None
       THEN stats' = [kind |-> "empty"]
       ELSE LET frame == TableFiltered(vstored.rows, features, shown)
            IN stats' = [kind |-> "stats",
                         financial |-> {GrossCol, EarningsCol} \subseteq features,
                         total_gross |-> IF {GrossCol, EarningsCol} \subseteq features
                                         THEN ColumnSum(frame, GrossCol) ELSE 0,
                         total_earnings |-> IF {GrossCol, EarningsCol} \subseteq features
                                            THEN ColumnSum(frame, EarningsCol) ELSE 0]
    /\ UNCHANGED <<vstored, features, shown, figure>>
    /\ UNCHANGED <<ledgerVars, coerceVars, aggVars, sqlVars, colVars, valVars, threadVars, dashVars,
                   scrapeVars>>

\* df.groupby('Order creation date').agg({'Gross amount': 'sum', 'Order earnings': 'sum'})
DailyData(frame) ==
    {[date |-> d,
      gross |-> ColumnSum(SelectSeq(frame, LAMBDA r : r[DateCol] = d), GrossCol),
      earnings |-> ColumnSum(SelectSeq(frame, LAMBDA r : r[DateCol] = d), EarningsCol)] :
        d \in {frame[j][DateCol] : j \in DOMAIN frame}}

\* update_sales_trend(stored_data, selected_features, ..., filtered_rows, filtered_indices, theme)
UpdateSalesTrend ==
    /\ figure = Unset
    /\ IF vstored = None \/ DateCol \notin features \/ GrossCol \notin features
       THEN figure' = [kind |-> "figure", traces |-> {}]
       ELSE LET frame == TableFiltered(vstored.rows, features, shown)
            IN IF frame # <<>> /\ EarningsCol \notin DOMAIN frame[1]
               THEN figure' = [kind |-> "raised", error |-> "KeyError"]
               ELSE figure' = [kind |-> "figure", traces |-> DailyData(frame)]
    /\ UNCHANGED <<vstored, features, shown, stats>>
    /\ UNCHANGED <<ledgerVars, coerceVars, aggVars, sqlVars, colVars, valVars, threadVars, dashVars,
                   scrapeVars>>

NextViews == UpdateSummaryStats \/ UpdateSalesTrend

SpecViews == InitViews /\ [][NextViews]_vars

\* C27: the summary statistics are those of exactly the rows the data table
\* shows after its native filter; when the filter keeps no row every total and
\* count is that of an empty row set.
C27_StatsOverShownRows ==
    (stats.kind = "stats" /\ stats.financial) =>
              /\ stats.total_gross = ColumnSum(FilteredRows(vstored.rows, features, shown), GrossCol)
              /\ stats.total_earnings =
                     ColumnSum(FilteredRows(vstored.rows, features, shown), EarningsCol)

\* C28: with 'Order creation date' and 'Gross amount' selected update_sales_trend
\* returns a figure, with or without 'Order earnings' and with or without rows
\* from the table filter.
C28_TrendNeverRaises ==
    (figure # Unset /\ {DateCol, GrossCol} \subseteq features) => figure.kind = "figure"


\* ================================================================ the scraper's make_df
\* main.py and tuning.py each define a recursive make_df(df, l) over the saved
\* pages page_l .. page_1; main.py calls it as make_df(pd.DataFrame(), l).
MaxPages == 3
MaxPageRows == 1

Scrapers == {"main", "tuning"}
PageFrames == UNION {[1..n -> RowValues] : n \in 0..MaxPageRows}
PageLists == UNION {[1..n -> PageFrames] : n \in 1..MaxPages}

InitScrape ==
    /\ scraper \in Scrapers
    /\ pages \in PageLists
    /\ scraped = None
    /\ spc = "start"
    /\ LedgerIdle /\ CoerceIdle /\ AggIdle /\ SqlIdle /\ ColIdle /\ ValIdle
    /\ ThreadIdle /\ DashIdle /\ ViewIdle

\* pd.concat([a, b], ignore_index=True): None objects are dropped silently
PdConcat(a, b) ==
    IF b = None THEN a
    ELSE IF a = None THEN b
    ELSE Table(a.rows \o b.rows)

\* collection(f'pages/page_{l}.html')
collection(ps, l) == Table(ps[l])

\* main.py make_df: the loop body returns on its first pass; with l = 0 the
\* loop is skipped and the function falls off its end, returning None
RECURSIVE MainMakeDf(_, _, _)
MainMakeDf(ps, frame, l) ==
    IF l > 0
    THEN PdConcat(frame, MainMakeDf(ps, collection(ps, l), l - 1))
    ELSE None

\* tuning.py make_df
RECURSIVE TuningMakeDf(_, _, _)
TuningMakeDf(ps, frame, l) ==
    IF l > 0
    THEN PdConcat(collection(ps, l), TuningMakeDf(ps, frame, l - 1))
    ELSE None

\* main.py: df = make_df(pd.DataFrame(), l)
MainScrape ==
    /\ scraper = "main" /\ spc = "start"
    /\ scraped' = MainMakeDf(pages, Table(<<>>), Len(pages))
    /\ spc' = "done"
    /\ UNCHANGED <<scraper, pages>>
    /\ UNCHANGED <<ledgerVars, coerceVars, aggVars, sqlVars, colVars, valVars, threadVars, dashVars,
                   viewVars>>

\* tuning.py's make_df applied to the same arguments (the script's own call
\* is commented out)
TuningScrape ==
    /\ scraper = "tuning" /\ spc = "start"
    /\ scraped' = TuningMakeDf(pages, Table(<<>>), Len(pages))
    /\ spc' = "done"
    /\ UNCHANGED <<scraper, pages>>
    /\ UNCHANGED <<ledgerVars, coerceVars, aggVars, sqlVars, colVars, valVars, threadVars, dashVars,
                   viewVars>>

NextScrape == MainScrape \/ TuningScrape

SpecScrape == InitScrape /\ [][NextScrape]_vars

\* the rows of page_l, page_(l-1), ..., page_1, in that order
RECURSIVE AllPages(_, _)
AllPages(ps, l) == IF l = 0 THEN <<>> ELSE ps[l] \o AllPages(ps, l - 1)

\* C29: make_df(empty, l) for l >= 1 saved pages returns the rows of page_l,
\* page_(l-1), ..., page_1, each page once and in that order.
C29_EveryPageOnce ==
    (scraper = "main" /\ spc = "done") => scraped = Table(AllPages(pages, Len(pages)))

====
